---- MODULE Spec2Model ----
(***************************************************************************)
(* Model of the Claude Chat API (src/main.py): the /chat handler, the      *)
(* /conversations/new handler and the store helpers crear_conversacion,    *)
(* agregar_mensaje and obtener_historial_conversacion.                     *)
(*                                                                         *)
(* The two MongoDB collections are sequences of documents in insertion     *)
(* order.  Every store operation (insert_one, insert_many, find, find_one, *)
(* count_documents, update_one) is one atomic step; the handler's steps    *)
(* between two store operations touch no shared state and are merged into  *)
(* a neighbouring store operation (the call of the completion API into the *)
(* read of the history before it), except the read of datetime.now() in    *)
(* agregar_mensaje, which is a step of its own because the clock is shared *)
(* and is read before insert_many (the two reads in crear_conversacion are *)
(* part of its insert_one step: the times of a new conversation are        *)
(* compared with no other document's).                                     *)
(* Flask's server (app.run) serves requests on concurrent threads.  The    *)
(* model has two of them, Procs, each handling one request at a time; a    *)
(* request is taken by the first idle thread.                              *)
(*                                                                         *)
(* Environment: every call of datetime.now() returns a later value than    *)
(* the call before it; uuid4() never repeats a value;                      *)
(* find().sort('timestamp', 1) returns equal timestamps in insertion order *)
(* (the scan order of the (conversation_id, timestamp) index);             *)
(* claude_client and db are configured.  The completion call and the store *)
(* operations of agregar_mensaje may raise.                                *)
(***************************************************************************)
EXTENDS Integers, Sequences, FiniteSets, TLC

\* ---------------------------------------------------------------- bounds
MaxRequests == 2    \* requests received over a run
MaxLen      == 60   \* longest message of the runs of agregar_mensaje alone

Procs == {1, 2}

\* ---------------------------------------------------------------- inputs
None == "<None>"                    \* Python None / absent JSON field
Long60 == "aaaaaaaaaaaaaaaaaaaaaaaaaaaaaaaaaaaaaaaaaaaaaaaaaaaaaaaaaaaa"
Uids    == {"u1", "u2"}
Texts   == {"Hello", Long60}
Replies == {"Hi!"}
Bogus   == "no-such-id"

\* ------------------------------------------------------- python helpers
Whitespace == {" ", "\t", "\n"}

RECURSIVE lstrip(_)
lstrip(s) ==
    IF Len(s) > 0 /\ SubSeq(s, 1, 1) \in Whitespace
    THEN lstrip(SubSeq(s, 2, Len(s)))
    ELSE s

RECURSIVE rstrip(_)
rstrip(s) ==
    IF Len(s) > 0 /\ SubSeq(s, Len(s), Len(s)) \in Whitespace
    THEN rstrip(SubSeq(s, 1, Len(s) - 1))
    ELSE s

strip(s) == rstrip(lstrip(s))

\* truth value of an optional string: None and "" are falsy
Falsy(v) == v = None \/ v = ""

\* ------------------------------------------------------------ the store
Min(S) == CHOOSE x \in S : \A y \in S : x <= y

\* an id generator that returns the same value on every call
uuid4_repetido(prefix, n) == prefix

\* str(uuid.uuid4()): a value no earlier call returned; the n-th value drawn
\* for a collection is named by n
uuid4(prefix, n) == prefix \o ToString(n)

\* collection.find(filter) / count_documents(filter) on one field
RECURSIVE find_conversation_id(_, _)
find_conversation_id(docs, cid) ==
    IF docs = <<>> THEN <<>>
    ELSE IF Head(docs).conversation_id = cid
         THEN <<Head(docs)>> \o find_conversation_id(Tail(docs), cid)
         ELSE find_conversation_id(Tail(docs), cid)

count_documents(docs, cid) == Len(find_conversation_id(docs, cid))

\* the cursor without its sort: documents in insertion order
sort_timestamp_unsorted(docs) == docs

Max(S) == CHOOSE x \in S : \A y \in S : x >= y

\* an ascending sort that returns equal keys in reverse insertion order
RECURSIVE sort_timestamp_inestable(_)
sort_timestamp_inestable(docs) ==
    IF docs = <<>> THEN <<>>
    ELSE LET m == Min({docs[i].timestamp : i \in 1..Len(docs)})
             k == Max({i \in 1..Len(docs) : docs[i].timestamp = m})
         IN  <<docs[k]>> \o
             sort_timestamp_inestable(SubSeq(docs, 1, k - 1) \o SubSeq(docs, k + 1, Len(docs)))

\* cursor.sort('timestamp', 1): ascending, equal keys in insertion order
RECURSIVE sort_timestamp(_)
sort_timestamp(docs) ==
    IF docs = <<>> THEN <<>>
    ELSE LET m == Min({docs[i].timestamp : i \in 1..Len(docs)})
             k == Min({i \in 1..Len(docs) : docs[i].timestamp = m})
         IN  <<docs[k]>> \o
             sort_timestamp(SubSeq(docs, 1, k - 1) \o SubSeq(docs, k + 1, Len(docs)))

\* the document crear_conversacion inserts
nueva_conversacion(cid, uid, t1, t2) ==
    [conversation_id |-> cid, uid |-> uid, created_at |-> t1, updated_at |-> t2,
     message_count |-> 0, title |-> "Nueva conversación", status |-> "active"]

\* a turn persisted as its user message alone
nuevos_mensajes_solo_usuario(id1, id2, cid, mensaje_usuario, respuesta_claude, uid, ts) ==
    << [id |-> id1, conversation_id |-> cid, uid |-> uid, role |-> "user",
        content |-> mensaje_usuario, timestamp |-> ts] >>

\* the two documents agregar_mensaje inserts, in list order
nuevos_mensajes(id1, id2, cid, mensaje_usuario, respuesta_claude, uid, ts) ==
    << [id |-> id1, conversation_id |-> cid, uid |-> uid, role |-> "user",
        content |-> mensaje_usuario, timestamp |-> ts],
       [id |-> id2, conversation_id |-> cid, uid |-> uid, role |-> "assistant",
        content |-> respuesta_claude, timestamp |-> ts] >>

\* the title test as 'if nuevo_count >= 2'
es_primer_mensaje_ge(n) == n >= 2

\* 'if nuevo_count == 2'
es_primer_mensaje(n) == n = 2

\* the title cut with 'len(mensaje_usuario) >= 50'
titulo_desde_50(mensaje_usuario) ==
    IF Len(mensaje_usuario) >= 50
    THEN SubSeq(mensaje_usuario, 1, 50) \o "..."
    ELSE mensaje_usuario

\* mensaje_usuario[:50] + "..." if len(mensaje_usuario) > 50 else mensaje_usuario
titulo(mensaje_usuario) ==
    IF Len(mensaje_usuario) > 50
    THEN SubSeq(mensaje_usuario, 1, 50) \o "..."
    ELSE mensaje_usuario

\* update_one({'conversation_id': cid}, {'$set': update_data}) applied to a document
set_update_data(doc, ts, n, mensaje_usuario) ==
    IF es_primer_mensaje(n)
    THEN [doc EXCEPT !.updated_at = ts, !.message_count = n,
                     !.title = titulo(mensaje_usuario)]
    ELSE [doc EXCEPT !.updated_at = ts, !.message_count = n]

\* the update applied to every document, whatever the filter
update_todas(docs, cid, ts, n, mensaje_usuario) ==
    [i \in 1..Len(docs) |-> set_update_data(docs[i], ts, n, mensaje_usuario)]

\* update_one changes the first document that matches the filter
update_one(docs, cid, ts, n, mensaje_usuario) ==
    LET hits == {i \in 1..Len(docs) : docs[i].conversation_id = cid}
    IN  IF hits = {} THEN docs
        ELSE [docs EXCEPT ![Min(hits)] = set_update_data(@, ts, n, mensaje_usuario)]

\* 'role'/'content' projection of obtener_historial_conversacion
RECURSIVE formato_claude(_)
formato_claude(docs) ==
    IF docs = <<>> THEN <<>>
    ELSE <<[role |-> Head(docs).role, content |-> Head(docs).content]>>
         \o formato_claude(Tail(docs))

obtener_historial_conversacion(docs, cid) ==
    formato_claude(sort_timestamp(find_conversation_id(docs, cid)))

\* ---------------------------------------------------------------- state
VARIABLES
    conversaciones,   \* conversaciones_collection: documents in insertion order
    mensajes,         \* mensajes_collection: documents in insertion order
    clock,            \* last value datetime.now() returned
    pc,               \* per thread: "idle" or the state of the chat request it handles
    data,             \* per thread: request.get_json() of its request
    conversation_id,  \* per thread: chat's local conversation_id
    historial,        \* per thread: chat's local historial (the prompt)
    respuesta,        \* per thread: chat's local respuesta
    timestamp,        \* per thread: agregar_mensaje's local timestamp
    nuevo_count,      \* per thread: agregar_mensaje's local nuevo_count
    resp,             \* the response the last step returned, NoResp if it returned none
    nreq,             \* requests received so far
    \* history variables, written but never read by the handlers
    calls,            \* per thread: claude_client.messages.create calls of its request
    writes,           \* per thread: store writes of its request
    turnos,           \* turns in the order insert_many persisted them
    otros             \* per thread: turns other threads persisted on its conversation
                      \*   since its agregar_mensaje counted the messages

store  == <<conversaciones, mensajes>>
locals == <<conversation_id, historial, respuesta, timestamp, nuevo_count>>
ghosts == <<turnos, otros>>
vars   == <<conversaciones, mensajes, clock, pc, data, conversation_id, historial,
            respuesta, timestamp, nuevo_count, resp, nreq, calls, writes, turnos,
            otros>>

NoResp == [status |-> 0]
\* 'return jsonify({'success': False, 'error': ...}), code'
Error(code) == [status |-> code, success |-> FALSE]

\* datetime.now(): a value later than the one last read
Now(c) == {c + 1}

\* conversation ids a client may send: absent, unknown, or the id of any stored
\* conversation (GET /conversations/<uid> lists them as soon as they are stored)
ConvIdInputs ==
    {None, Bogus} \cup {conversaciones[i].conversation_id : i \in 1..Len(conversaciones)}

\* JSON bodies of POST /chat: both users on every conversation and without
\* one, an unknown conversation id, and the edge cases of each check
NoData == [uid |-> None, message |-> None, conversation_id |-> None]
EdgeRequests ==
    { NoData,
      [uid |-> None, message |-> "Hello", conversation_id |-> None],
      [uid |-> "u1", message |-> None,    conversation_id |-> None],
      [uid |-> "u1", message |-> "",      conversation_id |-> None],
      [uid |-> "u1", message |-> " \t ",  conversation_id |-> None],
      [uid |-> "",   message |-> "Hello", conversation_id |-> None],
      [uid |-> "u1", message |-> "Hello", conversation_id |-> ""] }
Requests ==
    [uid : {"u1"}, message : Texts, conversation_id : ConvIdInputs \ {Bogus}]
    \cup [uid : {"u2"}, message : {"Hello"}, conversation_id : ConvIdInputs]
    \cup EdgeRequests

Init ==
    /\ conversaciones = <<>>
    /\ mensajes = <<>>
    /\ clock = 0
    /\ pc = [p \in Procs |-> "idle"]
    /\ data = [p \in Procs |-> NoData]
    /\ conversation_id = [p \in Procs |-> None]
    /\ historial = [p \in Procs |-> <<>>]
    /\ respuesta = [p \in Procs |-> None]
    /\ timestamp = [p \in Procs |-> 0]
    /\ nuevo_count = [p \in Procs |-> 0]
    /\ resp = NoResp
    /\ nreq = 0
    /\ calls = [p \in Procs |-> 0]
    /\ writes = [p \in Procs |-> 0]
    /\ turnos = <<>>
    /\ otros = [p \in Procs |-> 0]

\* the request ends: jsonify(...) is returned and the thread's locals die
Return(p, r) ==
    /\ resp' = r
    /\ pc' = [pc EXCEPT ![p] = "idle"]
    /\ data' = [data EXCEPT ![p] = NoData]
    /\ calls' = [calls EXCEPT ![p] = 0]
    /\ writes' = [writes EXCEPT ![p] = 0]
    /\ otros' = [otros EXCEPT ![p] = 0]
    /\ conversation_id' = [conversation_id EXCEPT ![p] = None]
    /\ historial' = [historial EXCEPT ![p] = <<>>]
    /\ respuesta' = [respuesta EXCEPT ![p] = None]
    /\ timestamp' = [timestamp EXCEPT ![p] = 0]
    /\ nuevo_count' = [nuevo_count EXCEPT ![p] = 0]

\* ------------------------------------------------------- /chat: Validating
\* 'if not data', 'if field not in data', 'if not mensaje.strip()'
validation_error(d) ==
    \/ d = NoData
    \/ d.uid = None
    \/ d.message = None
    \/ strip(d.message) = ""

\* a POST /chat arrives: 'data = request.get_json()'
chat_recibir(p) ==
    /\ pc[p] = "idle"
    /\ \A q \in Procs : q < p => pc[q] # "idle"
    /\ nreq < MaxRequests
    /\ nreq' = nreq + 1
    /\ \E d \in Requests : data' = [data EXCEPT ![p] = d]
    /\ pc' = [pc EXCEPT ![p] = "Validating"]
    /\ resp' = NoResp
    /\ UNCHANGED <<store, clock, locals, calls, writes, ghosts>>

\* the 400 returns of the validation
chat_validar(p) ==
    /\ UNCHANGED nreq
    /\ pc[p] = "Validating"
    /\ validation_error(data[p])
    /\ Return(p, Error(400))
    /\ UNCHANGED <<store, clock, turnos>>

\* -------------------------------------------------------- /chat: Resolving
\* what find_one returns when no document matches
NoDoc == [conversation_id |-> None, uid |-> None]

\* find_one({'conversation_id': cid}): the first matching document
find_one(docs, cid) ==
    LET hits == {i \in 1..Len(docs) : docs[i].conversation_id = cid}
    IN  IF hits = {} THEN NoDoc ELSE docs[Min(hits)]

\* the conversation lookup with 'if not conversacion' never taken
no_encontrada_nunca(conversacion) == FALSE

\* 'if not conversacion'
no_encontrada(conversacion) == conversacion = NoDoc

\* the ownership check with 'if conversacion['uid'] != uid' never taken
sin_acceso_nunca(conversacion, uid) == FALSE

\* the ownership check reduced to 'if not uid'
sin_acceso_sin_uid(conversacion, uid) == Falsy(uid)

\* 'if conversacion['uid'] != uid'
sin_acceso(conversacion, uid) == conversacion.uid # uid

\* 'if not conversation_id: conversation_id = crear_conversacion(uid)'
chat_crear(p) ==
    /\ UNCHANGED nreq
    /\ pc[p] = "Validating"
    /\ ~validation_error(data[p])
    /\ Falsy(data[p].conversation_id)
    /\ \E t1 \in Now(clock) : \E t2 \in Now(t1) :
         LET cid == uuid4("c", Len(conversaciones) + 1) IN
         /\ conversaciones' =
                Append(conversaciones, nueva_conversacion(cid, data[p].uid, t1, t2))
         /\ clock' = t2
         /\ conversation_id' = [conversation_id EXCEPT ![p] = cid]
    /\ pc' = [pc EXCEPT ![p] = "Assembling"]
    /\ writes' = [writes EXCEPT ![p] = @ + 1]
    /\ resp' = NoResp
    /\ UNCHANGED <<mensajes, data, historial, respuesta, timestamp, nuevo_count,
                   calls, ghosts>>

\* 'else: conversacion = find_one(...)' with its 404 and 403 returns
chat_verificar(p) ==
    /\ UNCHANGED nreq
    /\ pc[p] = "Validating"
    /\ ~validation_error(data[p])
    /\ ~Falsy(data[p].conversation_id)
    /\ IF no_encontrada(find_one(conversaciones, data[p].conversation_id))
       THEN Return(p, Error(404))
       ELSE IF sin_acceso(find_one(conversaciones, data[p].conversation_id), data[p].uid)
            THEN Return(p, Error(403))
            ELSE /\ conversation_id' =
                        [conversation_id EXCEPT ![p] = data[p].conversation_id]
                 /\ pc' = [pc EXCEPT ![p] = "Assembling"]
                 /\ resp' = NoResp
                 /\ UNCHANGED <<data, historial, respuesta, timestamp, nuevo_count,
                                calls, writes, otros>>
    /\ UNCHANGED <<store, clock, turnos>>

\* ------------------------------------------ /chat: Assembling, Completing
\* 'historial = obtener_historial_conversacion(...)' and 'historial.append(...)'
prompt(docs, cid, mensaje) ==
    Append(obtener_historial_conversacion(docs, cid), [role |-> "user", content |-> mensaje])

\* the history is read and claude_client.messages.create(...) returns a text
chat_completar(p) ==
    /\ UNCHANGED nreq
    /\ pc[p] = "Assembling"
    /\ historial' = [historial EXCEPT ![p] =
                        prompt(mensajes, conversation_id[p], data[p].message)]
    /\ \E r \in Replies : respuesta' = [respuesta EXCEPT ![p] = r]
    /\ calls' = [calls EXCEPT ![p] = @ + 1]
    /\ pc' = [pc EXCEPT ![p] = "Persisting"]
    /\ resp' = NoResp
    /\ UNCHANGED <<store, clock, data, conversation_id, timestamp,
                   nuevo_count, writes, ghosts>>

\* a failed completion that removes the conversation its request created
chat_completar_error_deshace(p) ==
    /\ UNCHANGED nreq
    /\ pc[p] = "Assembling"
    /\ Return(p, Error(500))
    /\ conversaciones' =
           SelectSeq(conversaciones,
                     LAMBDA c : ~(/\ Falsy(data[p].conversation_id)
                                  /\ c.conversation_id = conversation_id[p]))
    /\ UNCHANGED <<mensajes, clock, turnos>>

\* the history is read and claude_client.messages.create(...) raises:
\* 'except Exception' returns 500
chat_completar_error(p) ==
    /\ UNCHANGED nreq
    /\ pc[p] = "Assembling"
    /\ Return(p, Error(500))
    /\ UNCHANGED <<store, clock, turnos>>

\* ---------------------------------------- /chat: Persisting (agregar_mensaje)
\* 'timestamp = datetime.now()'
agregar_timestamp(p) ==
    /\ UNCHANGED nreq
    /\ pc[p] = "Persisting"
    /\ \E t \in Now(clock) :
         /\ clock' = t
         /\ timestamp' = [timestamp EXCEPT ![p] = t]
    /\ pc' = [pc EXCEPT ![p] = "Inserting"]
    /\ resp' = NoResp
    /\ UNCHANGED <<store, data, conversation_id, historial, respuesta, nuevo_count,
                   calls, writes, ghosts>>

\* 'mensajes_collection.insert_many(mensajes)'
agregar_insertar(p) ==
    /\ UNCHANGED nreq
    /\ pc[p] = "Inserting"
    /\ mensajes' = mensajes \o
            nuevos_mensajes(uuid4("m", Len(mensajes) + 1), uuid4("m", Len(mensajes) + 2),
                            conversation_id[p], data[p].message, respuesta[p],
                            data[p].uid, timestamp[p])
    /\ turnos' = Append(turnos, [conversation_id |-> conversation_id[p],
                                 user |-> data[p].message, assistant |-> respuesta[p]])
    /\ otros' = [q \in Procs |->
                    IF /\ q # p
                       /\ pc[q] \in {"Updating", "Responding"}
                       /\ conversation_id[q] = conversation_id[p]
                    THEN otros[q] + 1 ELSE otros[q]]
    /\ writes' = [writes EXCEPT ![p] = @ + 1]
    /\ pc' = [pc EXCEPT ![p] = "Counting"]
    /\ resp' = NoResp
    /\ UNCHANGED <<conversaciones, clock, data, locals, calls>>

\* 'nuevo_count = mensajes_collection.count_documents(...)'
agregar_contar(p) ==
    /\ UNCHANGED nreq
    /\ pc[p] = "Counting"
    /\ nuevo_count' = [nuevo_count EXCEPT ![p] = count_documents(mensajes, conversation_id[p])]
    /\ pc' = [pc EXCEPT ![p] = "Updating"]
    /\ resp' = NoResp
    /\ UNCHANGED <<store, clock, data, conversation_id, historial, respuesta,
                   timestamp, calls, writes, ghosts>>

\* 'conversaciones_collection.update_one(...)'
agregar_actualizar(p) ==
    /\ UNCHANGED nreq
    /\ pc[p] = "Updating"
    /\ conversaciones' = update_one(conversaciones, conversation_id[p], timestamp[p],
                                    nuevo_count[p], data[p].message)
    /\ writes' = [writes EXCEPT ![p] = @ + 1]
    /\ pc' = [pc EXCEPT ![p] = "Responding"]
    /\ resp' = NoResp
    /\ UNCHANGED <<mensajes, clock, data, locals, calls, ghosts>>

\* a store operation of agregar_mensaje raises: 'except Exception' returns 500
agregar_error(p) ==
    /\ UNCHANGED nreq
    /\ pc[p] \in {"Inserting", "Counting", "Updating"}
    /\ Return(p, Error(500))
    /\ UNCHANGED <<store, clock, turnos>>

\* ------------------------------------------------------- /chat: Responding
\* the success response built from the count agregar_mensaje computed
json_exito_devuelto(p) ==
    [status |-> 200,
     success |-> TRUE,
     conversation_id |-> conversation_id[p],
     message |-> data[p].message,
     response |-> respuesta[p],
     message_count |-> nuevo_count[p],
     is_new_conversation |-> Falsy(data[p].conversation_id)]

\* 'nuevo_count = count_documents(...)' and the success response
json_exito(p) ==
    [status |-> 200,
     success |-> TRUE,
     conversation_id |-> conversation_id[p],
     message |-> data[p].message,
     response |-> respuesta[p],
     message_count |-> count_documents(mensajes, conversation_id[p]),
     is_new_conversation |-> Falsy(data[p].conversation_id)]

chat_responder(p) ==
    /\ UNCHANGED nreq
    /\ pc[p] = "Responding"
    /\ Return(p, json_exito(p))
    /\ UNCHANGED <<store, clock, turnos>>

\* ------------------------------------------------ POST /conversations/new
\* the success response of /conversations/new
json_nueva(cid) == [status |-> 200, success |-> TRUE, conversation_id |-> cid]

\* the whole handler: 'if not data or 'uid' not in data' returns 400, otherwise
\* its one store write is the insert_one of crear_conversacion
new_conversation(uid) ==
    /\ nreq < MaxRequests
    /\ nreq' = nreq + 1
    /\ IF uid = None
       THEN /\ resp' = Error(400)
            /\ UNCHANGED <<conversaciones, clock>>
       ELSE /\ \E t1 \in Now(clock) : \E t2 \in Now(t1) :
                 /\ conversaciones' = Append(conversaciones,
                        nueva_conversacion(uuid4("c", Len(conversaciones) + 1), uid, t1, t2))
                 /\ clock' = t2
            /\ resp' = json_nueva(uuid4("c", Len(conversaciones) + 1))
    /\ UNCHANGED <<mensajes, pc, data, locals, calls, writes, ghosts>>

\* --------------------------------------------------------- specification
Next ==
    \/ \E p \in Procs : chat_recibir(p)
    \/ \E p \in Procs : chat_validar(p)
    \/ \E p \in Procs : chat_crear(p)
    \/ \E p \in Procs : chat_verificar(p)
    \/ \E p \in Procs : chat_completar(p)
    \/ \E p \in Procs : chat_completar_error(p)
    \/ \E p \in Procs : agregar_timestamp(p)
    \/ \E p \in Procs : agregar_insertar(p)
    \/ \E p \in Procs : agregar_contar(p)
    \/ \E p \in Procs : agregar_actualizar(p)
    \/ \E p \in Procs : agregar_error(p)
    \/ \E p \in Procs : chat_responder(p)
    \/ \E uid \in Uids \cup {None} : new_conversation(uid)

Spec == Init /\ [][Next]_vars

\* requests handled one after another: none arrives while another is in flight
Serial == \A q \in Procs : pc[q] = "idle"

NextSeq ==
    \/ \E p \in Procs : Serial /\ chat_recibir(p)
    \/ \E p \in Procs : chat_validar(p)
    \/ \E p \in Procs : chat_crear(p)
    \/ \E p \in Procs : chat_verificar(p)
    \/ \E p \in Procs : chat_completar(p)
    \/ \E p \in Procs : chat_completar_error(p)
    \/ \E p \in Procs : agregar_timestamp(p)
    \/ \E p \in Procs : agregar_insertar(p)
    \/ \E p \in Procs : agregar_contar(p)
    \/ \E p \in Procs : agregar_actualizar(p)
    \/ \E p \in Procs : agregar_error(p)
    \/ \E p \in Procs : chat_responder(p)
    \/ \E uid \in Uids \cup {None} : Serial /\ new_conversation(uid)

SeqSpec == Init /\ [][NextSeq]_vars

\* agregar_mensaje alone, on the first turn of a conversation and for messages of
\* every length up to MaxLen: the state in which /conversations/new has answered
\* and a chat request on the new conversation has received its completion
RECURSIVE Repetir(_, _)
Repetir(ch, n) == IF n = 0 THEN "" ELSE ch \o Repetir(ch, n - 1)

TextosTitulo == {Repetir(ch, n) : ch \in {"a", "b", "c"}, n \in 1..MaxLen}

InitTitulo ==
    /\ conversaciones = <<nueva_conversacion(uuid4("c", 1), "u1", 1, 2)>>
    /\ mensajes = <<>>
    /\ clock = 2
    /\ pc = [p \in Procs |-> IF p = 1 THEN "Persisting" ELSE "idle"]
    /\ \E m \in TextosTitulo :
         /\ data = [p \in Procs |->
                      IF p = 1
                      THEN [uid |-> "u1", message |-> m, conversation_id |-> uuid4("c", 1)]
                      ELSE NoData]
         /\ historial = [p \in Procs |->
                           IF p = 1 THEN prompt(<<>>, uuid4("c", 1), m) ELSE <<>>]
    /\ conversation_id = [p \in Procs |-> IF p = 1 THEN uuid4("c", 1) ELSE None]
    /\ respuesta = [p \in Procs |-> IF p = 1 THEN "Hi!" ELSE None]
    /\ timestamp = [p \in Procs |-> 0]
    /\ nuevo_count = [p \in Procs |-> 0]
    /\ resp = NoResp
    /\ nreq = 2
    /\ calls = [p \in Procs |-> IF p = 1 THEN 1 ELSE 0]
    /\ writes = [p \in Procs |-> 0]
    /\ turnos = <<>>
    /\ otros = [p \in Procs |-> 0]

NextTitulo ==
    \/ \E p \in Procs : agregar_timestamp(p)
    \/ \E p \in Procs : agregar_insertar(p)
    \/ \E p \in Procs : agregar_contar(p)
    \/ \E p \in Procs : agregar_actualizar(p)
    \/ \E p \in Procs : agregar_error(p)
    \/ \E p \in Procs : chat_responder(p)

TituloSpec == InitTitulo /\ [][NextTitulo]_vars

\* ------------------------------------------------------------ properties
Placeholder == "Nueva conversación"

ConvIds == {conversaciones[i].conversation_id : i \in 1..Len(conversaciones)}

\* thread p is inside agregar_mensaje (appendTurn) or about to enter it
EnAgregar(p) == pc[p] \in {"Persisting", "Inserting", "Counting", "Updating"}

\* thread p takes the step that ends its agregar_mensaje call normally
TerminaAgregar(p) == pc[p] = "Updating" /\ pc'[p] = "Responding"

\* number of turns persisted on conversation cid
NumTurnos(cid) ==
    Cardinality({k \in 1..Len(turnos) : turnos[k].conversation_id = cid})

\* C1: after every appendTurn call that leaves no other appendTurn on the same
\* conversation in progress, the stored message_count of the conversation equals
\* the number of persisted messages that reference it.
C1_CountMatchesAfterAppend ==
    [][\A p \in Procs :
          (TerminaAgregar(p) /\
           \A q \in Procs \ {p} :
               ~(EnAgregar(q) /\ conversation_id[q] = conversation_id[p]))
          => find_one(conversaciones', conversation_id[p]).message_count
               = count_documents(mensajes', conversation_id[p])]_vars

\* C2: an appendTurn call writes the title exactly when the count it recomputed
\* is 2, it then writes the title derived from its user message, the title had
\* not been written before, and nothing else ever changes a title.
C2_TitleWrittenIffCountTwo ==
    [][/\ \A p \in Procs :
            TerminaAgregar(p) =>
              LET antes   == find_one(conversaciones, conversation_id[p])
                  despues == find_one(conversaciones', conversation_id[p])
              IN  IF nuevo_count[p] = 2
                  THEN /\ antes.title = Placeholder
                       /\ despues.title = titulo(data[p].message)
                  ELSE despues.title = antes.title
       /\ \A i \in 1..Len(conversaciones) :
            conversaciones'[i].title # conversaciones[i].title =>
              \E p \in Procs : /\ TerminaAgregar(p)
                               /\ nuevo_count[p] = 2
                               /\ conversation_id[p] = conversaciones[i].conversation_id
      ]_vars

\* a title was written and a later appendTurn on the conversation has completed
C2_Witness ==
    \E i \in 1..Len(conversaciones) :
        /\ conversaciones[i].title # Placeholder
        /\ conversaciones[i].message_count = 4

\* timestamps of a sequence of message documents never decrease
Ascendente(docs) ==
    \A i \in 1..Len(docs) : \A j \in 1..Len(docs) :
        i < j => docs[i].timestamp <= docs[j].timestamp

\* C3: the history of every conversation is in ascending timestamp order and
\* has exactly two entries for each turn persisted on the conversation.
C3_HistorySortedTwoPerTurn ==
    \A cid \in ConvIds \cup {Bogus} :
        /\ Ascendente(sort_timestamp(find_conversation_id(mensajes, cid)))
        /\ Len(obtener_historial_conversacion(mensajes, cid)) = 2 * NumTurnos(cid)
        /\ NumTurnos(cid) = 0 => obtener_historial_conversacion(mensajes, cid) = <<>>

\* two turns of one conversation were persisted against the order of their timestamps
C3_Witness ==
    \E i \in 1..Len(mensajes) : \E j \in 1..Len(mensajes) :
        /\ i < j
        /\ mensajes[i].conversation_id = mensajes[j].conversation_id
        /\ mensajes[i].timestamp > mensajes[j].timestamp
        /\ Len(obtener_historial_conversacion(mensajes, mensajes[i].conversation_id)) = 4

\* thread p takes a step of its request
Paso(p) == pc'[p] # pc[p]

\* the request of thread p passed the validation and supplies no conversation id
SinConversacion(p) == ~validation_error(data[p]) /\ Falsy(data[p].conversation_id)

\* C4: the step that resolves a chat request without conversation id appends one
\* conversation, owned by the caller, whose id no stored conversation has, and the
\* request keeps that id; the success response carries the id, and its
\* is_new_conversation is true exactly for the requests that supplied no id, which
\* are exactly the requests that created a conversation.
C4_OmittedIdCreatesFresh ==
    [][\A p \in Procs :
          /\ (pc[p] = "Validating" /\ SinConversacion(p) /\ Paso(p)) =>
               LET n == Len(conversaciones)
               IN  /\ Len(conversaciones') = n + 1
                   /\ SubSeq(conversaciones', 1, n) = conversaciones
                   /\ conversaciones'[n + 1].conversation_id \notin ConvIds
                   /\ conversaciones'[n + 1].uid = data[p].uid
                   /\ conversation_id'[p] = conversaciones'[n + 1].conversation_id
          /\ (pc[p] \notin {"idle", "Validating"} /\ pc'[p] # "idle") =>
               conversation_id'[p] = conversation_id[p]
          /\ (pc[p] = "Responding" /\ Paso(p)) =>
               /\ resp'.status = 200
               /\ resp'.conversation_id = conversation_id[p]
               /\ resp'.is_new_conversation <=> Falsy(data[p].conversation_id)
               /\ resp'.is_new_conversation <=> (writes[p] = 3)
      ]_vars

\* a chat request without id is about to answer for the second conversation of
\* its user, whose first conversation already holds a turn
C4_Witness ==
    \E p \in Procs :
        /\ pc[p] = "Responding"
        /\ writes[p] = 3
        /\ Len(conversaciones) = 2
        /\ conversaciones[1].uid = data[p].uid
        /\ conversation_id[p] = conversaciones[2].conversation_id
        /\ NumTurnos(conversaciones[1].conversation_id) = 1

\* the request of thread p passed the validation and names a stored conversation
\* of another user
ConversacionAjena(p) ==
    /\ ~validation_error(data[p])
    /\ \E i \in 1..Len(conversaciones) :
           /\ conversaciones[i].conversation_id = data[p].conversation_id
           /\ conversaciones[i].uid # data[p].uid

\* C5: a chat request that names a stored conversation of another user is answered
\* 403 by its next step, which leaves both collections unchanged; the request has
\* called the completion API never and written nothing.
C5_ForeignConversation403 ==
    [][\A p \in Procs :
          (pc[p] = "Validating" /\ ConversacionAjena(p) /\ Paso(p)) =>
              /\ resp' = Error(403)
              /\ pc'[p] = "idle"
              /\ store' = store
              /\ calls[p] = 0 /\ calls'[p] = 0
              /\ writes[p] = 0
      ]_vars

\* a 403 was just returned while the store holds a conversation with a turn
C5_Witness ==
    /\ resp = Error(403)
    /\ conversaciones # <<>>
    /\ mensajes # <<>>

\* the request of thread p passed the validation and supplies an id that no stored
\* conversation has
ConversacionInexistente(p) ==
    /\ ~validation_error(data[p])
    /\ ~Falsy(data[p].conversation_id)
    /\ data[p].conversation_id \notin ConvIds

\* C6: a chat request that supplies an id no stored conversation has is answered
\* 404 by its next step, which leaves both collections unchanged (no conversation
\* appears under that id); the request has called the completion API never and
\* written nothing.
C6_UnknownConversation404 ==
    [][\A p \in Procs :
          (pc[p] = "Validating" /\ ConversacionInexistente(p) /\ Paso(p)) =>
              /\ resp' = Error(404)
              /\ pc'[p] = "idle"
              /\ store' = store
              /\ data[p].conversation_id \notin
                     {conversaciones'[i].conversation_id : i \in 1..Len(conversaciones')}
              /\ calls[p] = 0 /\ calls'[p] = 0
              /\ writes[p] = 0
      ]_vars

\* a 404 was just returned while the store holds conversations
C6_Witness ==
    /\ resp = Error(404)
    /\ conversaciones # <<>>

\* the turns persisted on conversation cid, in the order they were persisted
RECURSIVE TurnosDe(_, _)
TurnosDe(ts, cid) ==
    IF ts = <<>> THEN <<>>
    ELSE IF Head(ts).conversation_id = cid
         THEN <<Head(ts)>> \o TurnosDe(Tail(ts), cid)
         ELSE TurnosDe(Tail(ts), cid)

\* [u1, a1, u2, a2, ...] of a sequence of turns
RECURSIVE Dialogo(_)
Dialogo(ts) ==
    IF ts = <<>> THEN <<>>
    ELSE << [role |-> "user", content |-> Head(ts).user],
            [role |-> "assistant", content |-> Head(ts).assistant] >>
         \o Dialogo(Tail(ts))

\* the turns persisted on the conversation of thread p before its own turn
TurnosPrevios(p) ==
    LET ts == TurnosDe(turnos, conversation_id[p])
    IN  IF pc[p] \in {"Counting", "Updating", "Responding"}
        THEN SubSeq(ts, 1, Len(ts) - 1)
        ELSE ts

C8_InvalidRequest400 ==
    [][\A p \in Procs :
          (/\ pc[p] = "Validating"
           /\ Paso(p)
           /\ \/ Falsy(data[p].uid)
              \/ data[p].message = None
              \/ strip(data[p].message) = "") =>
              /\ resp' = Error(400)
              /\ store' = store
              /\ calls[p] = 0 /\ calls'[p] = 0
              /\ writes[p] = 0
      ]_vars

\* C9 as stated: the message_count of every success response is the count the
\* request's agregar_mensaje computed and stored.
C9_ResponseCountIsStoredCount ==
    [][\A p \in Procs :
          (pc[p] = "Responding" /\ Paso(p)) =>
              /\ resp'.status = 200
              /\ resp'.message_count = nuevo_count[p]
      ]_vars

\* C9: the message_count of every success response is the number of messages
\* persisted on the conversation when the response is built, two for each turn
\* persisted on it; it is the count the request's agregar_mensaje computed plus
\* two for every turn another request persisted on the conversation since.
C9_ResponseCountIsRecount ==
    [][\A p \in Procs :
          (pc[p] = "Responding" /\ Paso(p)) =>
              /\ resp'.status = 200
              /\ resp'.message_count = 2 * NumTurnos(conversation_id[p])
              /\ resp'.message_count = nuevo_count[p] + 2 * otros[p]
      ]_vars

\* a request is about to answer after another request persisted a turn on its
\* conversation behind its count
C9_Witness ==
    \E p \in Procs :
        /\ pc[p] = "Responding"
        /\ otros[p] = 1
        /\ nuevo_count[p] = 2

\* C10: while no agregar_mensaje is in progress, every conversation with at least
\* two persisted messages has the title derived from the first message of its
\* history, and only a conversation without messages has the placeholder title.
C10_TitleFromFirstMessage ==
    (\A p \in Procs : ~EnAgregar(p)) =>
        \A i \in 1..Len(conversaciones) :
            LET c == conversaciones[i]
                h == obtener_historial_conversacion(mensajes, c.conversation_id)
            IN  /\ Len(h) >= 2 => /\ c.title # Placeholder
                                  /\ c.title = titulo(h[1].content)
                /\ c.title = Placeholder => Len(h) = 0

\* C11: a stored title other than the placeholder is the user message of the
\* conversation's turn when that message has at most 50 characters, and otherwise
\* its first 50 characters followed by "..."; a message of 60 characters gives a
\* title of length 53 and no title is longer than 53.
C11_TitleTruncation ==
    \A i \in 1..Len(conversaciones) :
        LET t == conversaciones[i].title
            h == find_conversation_id(mensajes, conversaciones[i].conversation_id)
        IN  /\ Len(t) <= 53
            /\ t # Placeholder =>
                 LET m == h[1].content
                 IN  /\ h[1].role = "user"
                     /\ Len(m) <= 50 => t = m
                     /\ Len(m) > 50 => /\ Len(t) = 53
                                       /\ SubSeq(t, 1, 50) = SubSeq(m, 1, 50)
                                       /\ SubSeq(t, 51, 53) = "..."
                     /\ Len(m) = 60 => Len(t) = 53

\* the title of a 60-character first message is stored with length 53
C11_Witness ==
    \E i \in 1..Len(conversaciones) :
        /\ Len(conversaciones[i].title) = 53
        /\ Len(mensajes) = 2
        /\ Len(mensajes[1].content) = 60
        /\ conversaciones[i].message_count = 2

\* C12: every persisted message references a stored conversation and carries the
\* uid of that conversation.
C12_MessageOwnerIsConversationOwner ==
    \A k \in 1..Len(mensajes) :
        /\ mensajes[k].conversation_id \in ConvIds
        /\ mensajes[k].uid = find_one(conversaciones, mensajes[k].conversation_id).uid

\* a turn is persisted and a request on a conversation of another user was just
\* rejected
C12_Witness ==
    /\ mensajes # <<>>
    /\ resp = Error(403)
    /\ \E i \in 1..Len(conversaciones) : conversaciones[i].message_count = 2

\* greatest timestamp among the persisted messages of conversation cid, 0 if none
MaxTimestamp(docs, cid) ==
    LET h == find_conversation_id(docs, cid)
    IN  IF h = <<>> THEN 0 ELSE Max({h[k].timestamp : k \in 1..Len(h)})

\* C13: no step decreases the updated_at of a conversation, and whenever a step
\* leaves no agregar_mensaje in progress, the updated_at of every conversation
\* with messages is the greatest timestamp among them.
C13_UpdatedAtIsLatestTimestamp ==
    [][/\ \A i \in 1..Len(conversaciones) :
            conversaciones'[i].updated_at >= conversaciones[i].updated_at
       /\ (\A p \in Procs : ~EnAgregar(p)') =>
            \A i \in 1..Len(conversaciones') :
                LET cid == conversaciones'[i].conversation_id
                IN  count_documents(mensajes', cid) > 0 =>
                      conversaciones'[i].updated_at = MaxTimestamp(mensajes', cid)
      ]_vars

\* number of persisted messages of conversation cid with the given role
NumRol(docs, cid, rol) ==
    Cardinality({k \in 1..Len(docs) :
                    docs[k].conversation_id = cid /\ docs[k].role = rol})

\* C14: a request enters agregar_mensaje only from its completion call, which it
\* made exactly once; messages appear only by the insert of a request inside
\* agregar_mensaje that has not inserted before, as the user message of the
\* request followed by the reply it received; a request that ends at its
\* completion call leaves the messages unchanged; and whenever a step leaves no
\* agregar_mensaje in progress, every conversation holds one user and one
\* assistant message for each turn persisted on it.
C14_MessagesInPairs ==
    [][/\ \A p \in Procs :
            /\ (pc'[p] = "Persisting" /\ pc[p] # "Persisting") =>
                   (pc[p] = "Assembling" /\ calls'[p] = 1)
            /\ EnAgregar(p) => calls[p] = 1
            /\ (pc[p] = "Assembling" /\ pc'[p] = "idle") =>
                   (resp'.status = 500 /\ mensajes' = mensajes)
       /\ mensajes' # mensajes =>
            \E p \in Procs :
                LET n == Len(mensajes) IN
                /\ pc[p] = "Inserting" /\ pc'[p] = "Counting"
                /\ calls[p] = 1
                /\ writes[p] = (IF Falsy(data[p].conversation_id) THEN 1 ELSE 0)
                /\ Len(mensajes') = n + 2
                /\ SubSeq(mensajes', 1, n) = mensajes
                /\ mensajes'[n + 1].role = "user"
                /\ mensajes'[n + 1].content = data[p].message
                /\ mensajes'[n + 2].role = "assistant"
                /\ mensajes'[n + 2].content = respuesta[p]
                /\ mensajes'[n + 1].conversation_id = conversation_id[p]
                /\ mensajes'[n + 2].conversation_id = conversation_id[p]
       /\ (\A p \in Procs : ~EnAgregar(p)') =>
            \A i \in 1..Len(conversaciones') :
                LET cid == conversaciones'[i].conversation_id
                IN  /\ NumRol(mensajes', cid, "user") = Len(TurnosDe(turnos', cid))
                    /\ NumRol(mensajes', cid, "assistant") = Len(TurnosDe(turnos', cid))
                    /\ count_documents(mensajes', cid) = 2 * Len(TurnosDe(turnos', cid))
      ]_vars

\* one request persisted its turn, another created a conversation and ended with
\* 500 without a message, and no request is in flight
C14_Witness ==
    /\ \A p \in Procs : pc[p] = "idle"
    /\ resp = Error(500)
    /\ Len(conversaciones) = 2
    /\ conversaciones[1].message_count = 2
    /\ Len(mensajes) = 2
    /\ count_documents(mensajes, conversaciones[2].conversation_id) = 0

\* C15: every step keeps the stored conversations and messages in place and adds
\* documents only at the end; it changes no field of a stored message and no
\* conversation_id, uid, created_at or status of a stored conversation; and a
\* stored conversation changes only by the update_one of an agregar_mensaje call
\* on that conversation, which leaves every other conversation as it was.
C15_AppendOnly ==
    [][/\ Len(mensajes') >= Len(mensajes)
       /\ SubSeq(mensajes', 1, Len(mensajes)) = mensajes
       /\ Len(conversaciones') >= Len(conversaciones)
       /\ \A i \in 1..Len(conversaciones) :
            /\ conversaciones'[i].conversation_id = conversaciones[i].conversation_id
            /\ conversaciones'[i].uid = conversaciones[i].uid
            /\ conversaciones'[i].created_at = conversaciones[i].created_at
            /\ conversaciones'[i].status = conversaciones[i].status
            /\ conversaciones'[i] # conversaciones[i] =>
                 /\ \E p \in Procs :
                        /\ TerminaAgregar(p)
                        /\ conversation_id[p] = conversaciones[i].conversation_id
                 /\ Len(conversaciones') = Len(conversaciones)
                 /\ mensajes' = mensajes
                 /\ \A j \in 1..Len(conversaciones) :
                        j # i => conversaciones'[j] = conversaciones[j]
      ]_vars

\* agregar_mensaje has updated one of two stored conversations
C15_Witness ==
    /\ Len(conversaciones) = 2
    /\ conversaciones[1].message_count = 2
    /\ conversaciones[1].title # Placeholder
    /\ conversaciones[2].message_count = 0
    /\ Len(mensajes) = 2

====
